---- MODULE Spec2Model ----
(***************************************************************************)
(* Model of src/frontend/main.js: the dashboard's date arithmetic, series  *)
(* transforms, selector state and the asynchronous load pipelines.         *)
(*                                                                         *)
(* Strings "YYYY-MM-DD" are tuples <<y, m, d>>, "MM-DD" tuples <<m, d>>,   *)
(* the empty string is <<>>.  A Date object is the number of days of its   *)
(* instant since 1970-01-01 (UTC); every Date the program builds from a    *)
(* date-only string is at UTC midnight.  zone is the browser's time zone:  *)
(* "west" (UTC offset negative: at UTC midnight the local calendar date is *)
(* the day before) or "east" (offset zero or positive: same date).         *)
(***************************************************************************)
EXTENDS Integers, Sequences, FiniteSets, TLC

Min(a, b) == IF a <= b THEN a ELSE b

(***************************************************************************)
(* The built-in Date: time value <-> calendar fields (ECMAScript MakeDay,  *)
(* YearFromTime, MonthFromTime, DateFromTime, WeekDay).                    *)
(***************************************************************************)
DaysFromCivil(y, m, d) ==
  LET yy  == IF m <= 2 THEN y - 1 ELSE y
      era == yy \div 400
      yoe == yy - era * 400
      mp  == IF m > 2 THEN m - 3 ELSE m + 9
      doy == (153 * mp + 2) \div 5 + d - 1
      doe == yoe * 365 + yoe \div 4 - yoe \div 100 + doy
  IN  era * 146097 + doe - 719468

CivilFromDays(t) ==
  LET z   == t + 719468
      era == z \div 146097
      doe == z - era * 146097
      yoe == (doe - doe \div 1460 + doe \div 36524 - doe \div 146096) \div 365
      doy == doe - (365 * yoe + yoe \div 4 - yoe \div 100)
      mp  == (5 * doy + 2) \div 153
      d   == doy - (153 * mp + 2) \div 5 + 1
      m   == IF mp < 10 THEN mp + 3 ELSE mp - 9
      y   == yoe + era * 400 + (IF m <= 2 THEN 1 ELSE 0)
  IN  [y |-> y, m |-> m, d |-> d]

\* new Date(y, monthIndex, day): local fields, month and day overflow normalised.
MakeDay(y, monthIndex, day) ==
  DaysFromCivil(y + monthIndex \div 12, (monthIndex % 12) + 1, 1) + day - 1

\* new Date("YYYY-MM-DD"): a date-only string is parsed as UTC midnight.
ParseDate(s) == DaysFromCivil(s[1], s[2], s[3])

\* The local calendar day of a Date that is at UTC midnight.
LocalDay(t, zone) == IF zone = "west" THEN t - 1 ELSE t

\* d.getFullYear(), d.getMonth() + 1, d.getDate(), d.getDay(): local time.
GetFullYear(t, zone) == CivilFromDays(LocalDay(t, zone)).y
GetMonth1(t, zone)   == CivilFromDays(LocalDay(t, zone)).m
GetDate(t, zone)     == CivilFromDays(LocalDay(t, zone)).d
GetDay(t, zone)      == (LocalDay(t, zone) + 4) % 7

\* d.setDate(n): sets the local day of month (overflow normalised), keeps the
\* local time of day; the result is the new instant.
SetDate(t, n, zone) ==
  LET c == CivilFromDays(LocalDay(t, zone))
  IN  MakeDay(c.y, c.m - 1, n) + (t - LocalDay(t, zone))

\* d.toISOString().slice(0,10): the UTC calendar date.
ToISODate(t) == LET c == CivilFromDays(t) IN <<c.y, c.m, c.d>>

(***************************************************************************)
(* weekDatesFrom(dateStr)                                                  *)
(***************************************************************************)
weekDatesFrom(dateStr, zone) ==
  LET d         == ParseDate(dateStr)
      day       == GetDay(d, zone)
      diffToMon == IF day = 0 THEN -6 ELSE 1 - day
      mon       == SetDate(d, GetDate(d, zone) + diffToMon, zone)
  IN  [i \in 1..7 |-> ToISODate(SetDate(mon, GetDate(mon, zone) + (i - 1), zone))]

(***************************************************************************)
(* buildWeekIndex(): the option list built from the week selectors.        *)
(* NoSel is the value "" of a select with no option selected; parseInt("") *)
(* is NaN, every comparison with NaN is false, so the loop builds nothing. *)
(***************************************************************************)
NoSel == -1

RECURSIVE WeekOptionsFrom_NoClamp(_, _, _)
\* the loop without Math.min: every block ends at start + 6
WeekOptionsFrom_NoClamp(start, idx, days) ==
  IF start <= days
  THEN <<[value |-> idx, start |-> start, end |-> start + 6]>>
         \o WeekOptionsFrom_NoClamp(start + 7, idx + 1, days)
  ELSE <<>>

RECURSIVE WeekOptionsFrom(_, _, _)
WeekOptionsFrom(start, idx, days) ==
  IF start <= days
  THEN <<[value |-> idx, start |-> start, end |-> Min(start + 6, days)]>>
         \o WeekOptionsFrom(start + 7, idx + 1, days)
  ELSE <<>>

buildWeekIndex(y, m) ==
  IF y = NoSel \/ m = NoSel
  THEN <<>>
  ELSE \* new Date(y, m, 0).getDate(): built and read in local time
       WeekOptionsFrom(1, 1, CivilFromDays(MakeDay(y, m, 0)).d)

RECURSIVE SeqSumOf(_)
\* sum = arr => arr.reduce((a,b) => a + (Number(b)||0), 0)
SeqSumOf(q) == IF q = <<>> THEN 0 ELSE q[1] + SeqSumOf(Tail(q))

(***************************************************************************)
(* IEEE-754 double arithmetic of the pass rate, Math.round((p/tot)*100).   *)
(* A positive double is [a, b, c, k]: its 53-bit significand is            *)
(* a*2^36 + b*2^18 + c (a has 17 bits, the top one set; b and c 18 bits)   *)
(* and its value is significand * 2^(-k).  Every intermediate stays below  *)
(* 2^31, which needs tot < 2^13.                                           *)
(***************************************************************************)
RECURSIVE LeadingZeros(_, _)
\* how many 0 bits the binary expansion of r/tot (0 < r < tot) starts with
LeadingZeros(r, tot) == IF 2 * r >= tot THEN 0 ELSE 1 + LeadingZeros(2 * r, tot)

RECURSIVE Pow2(_)
Pow2(n) == IF n = 0 THEN 1 ELSE 2 * Pow2(n - 1)

Cmp(x, y) == IF x > y THEN 1 ELSE IF x = y THEN 0 ELSE -1

\* round to nearest, ties to even: the significand a,b,c is kept or raised
\* by one, given whether the discarded part is above (1), equal to (0) or
\* below (-1) half a unit in the last place
RoundEven(a, b, c, k, cmpHalf) ==
  LET up == cmpHalf = 1 \/ (cmpHalf = 0 /\ c % 2 = 1)
      c1 == (c + 1) % Pow2(18)
      b1 == IF c1 = 0 THEN (b + 1) % Pow2(18) ELSE b
      a1 == IF c1 = 0 /\ b1 = 0 THEN a + 1 ELSE a
  IN  IF ~up THEN [a |-> a, b |-> b, c |-> c, k |-> k]
      ELSE IF a1 = Pow2(17) THEN [a |-> Pow2(16), b |-> 0, c |-> 0, k |-> k - 1]
      ELSE [a |-> a1, b |-> b1, c |-> c1, k |-> k]

\* p / tot for 0 < p < tot: binary long division, 17 + 18 + 18 bits
FloatDiv(p, tot) ==
  LET z  == LeadingZeros(p, tot)
      r0 == p * Pow2(z)
      a  == (r0 * Pow2(17)) \div tot
      r1 == (r0 * Pow2(17)) % tot
      b  == (r1 * Pow2(18)) \div tot
      r2 == (r1 * Pow2(18)) % tot
      c  == (r2 * Pow2(18)) \div tot
      r3 == (r2 * Pow2(18)) % tot
  IN  RoundEven(a, b, c, z + 53, Cmp(2 * r3, tot))

\* x * 100: the exact product has 59 or 60 bits and is rounded to 53
FloatMul100(x) ==
  LET pc   == x.c * 100
      pb   == x.b * 100 + (pc \div Pow2(18))
      top  == x.a * 100 + (pb \div Pow2(18))
      bl   == pb % Pow2(18)
      cl   == pc % Pow2(18)
      drop == IF top >= Pow2(23) THEN 7 ELSE 6
      d    == Pow2(drop)
      u    == Pow2(18 - drop)
  IN  RoundEven(top \div d,
                (bl \div d) + (top % d) * u,
                (cl \div d) + (bl % d) * u,
                x.k - drop,
                Cmp(cl % d, d \div 2))

\* Math.round(x) for 0 < x < 128: the nearest integer, a fraction of .5 and
\* above goes up.  The integer part and the first fraction bit lie in x.a.
MathRound(x) ==
  IF x.k >= 54 THEN 0
  ELSE IF x.k = 53 THEN 1
  ELSE (x.a \div Pow2(x.k - 36)) + ((x.a \div Pow2(x.k - 37)) % 2)

\* tot ? Math.round((p/tot)*100) : 0, for counts p, f >= 0
Rate(p, f) ==
  LET tot == p + f
  IN  IF tot = 0 THEN 0
      ELSE IF p = 0 THEN 0      \* 0/tot = 0, 0*100 = 0
      ELSE IF f = 0 THEN 100    \* p/p = 1 and 1*100 = 100 are exact
      ELSE MathRound(FloatMul100(FloatDiv(p, tot)))

\* j.labels.map((_,i) => rate of j.pass[i], j.fail[i]); a missing entry is 0
At0(seq, i) == IF i \in DOMAIN seq THEN seq[i] ELSE 0

toRate(j) == [i \in 1..Len(j.labels) |-> Rate(At0(j.pass, i), At0(j.fail, i))]

(***************************************************************************)
(* loadDay's cumulative series over a week payload.                        *)
(***************************************************************************)
RECURSIVE CumSum_NoCarry(_, _, _, _)
\* the loop pushing each raw value instead of the running sum
CumSum_NoCarry(raw, i, n, acc) ==
  IF i > n THEN <<>>
  ELSE <<At0(raw, i)>> \o CumSum_NoCarry(raw, i + 1, n, acc)

RECURSIVE CumSum(_, _, _, _)
\* for(i...){ pSum += Number(raw[i]||0); cum.push(pSum) }
CumSum(raw, i, n, acc) ==
  IF i > n THEN <<>>
  ELSE <<acc + At0(raw, i)>> \o CumSum(raw, i + 1, n, acc + At0(raw, i))

toCumulative(weekData) ==
  [passCum |-> CumSum(weekData.pass, 1, Len(weekData.labels), 0),
   failCum |-> CumSum(weekData.fail, 1, Len(weekData.labels), 0)]

(***************************************************************************)
(* The page: selectors, charts, labels and the asynchronous runs in flight *)
(***************************************************************************)
VARIABLES
  zone,            \* the browser's time zone: "east" or "west" of UTC
  today,           \* new Date().toISOString().slice(0,10)
  stage,           \* where start() is: the load it awaits, or "timer"
  period,          \* data-period of the .side-btn.active button, or "none"
  dayInput,        \* $('dayInput').value
  weekYear, weekMonth, weekIndex,   \* the week selectors' values
  weekOpts,        \* the options of $('weekIndex')
  monthYear, monthSelect, yearSelect,
  selectedDevice,
  devicesList,     \* what $('devicesList') shows: "none", "list", "error"
  logTable,        \* the hourly log: summary date and the 24 rows
  chartDay, chartWeek, chartMonth, chartYear,
  weekLabel, monthLabel, yearLabel,
  runs,            \* the async functions awaiting a response, oldest first
  staleWrites,     \* history: outputs written by a run after a younger run
                   \* for another selection had written them
  fn, arg, res     \* a function applied on its own: its name, input, result

fnVars    == <<fn, arg, res>>
selVars   == <<dayInput, weekYear, weekMonth, weekIndex, weekOpts,
               monthYear, monthSelect, yearSelect>>
chartVars == <<logTable, chartDay, chartWeek, chartMonth, chartYear>>
labelVars == <<weekLabel, monthLabel, yearLabel>>
envVars   == <<zone, today, fnVars>>
uiVars    == <<envVars, stage, period, selVars, selectedDevice, devicesList,
               chartVars, labelVars, runs, staleWrites>>

vars      == uiVars

NoRes == [none |-> TRUE]

MaxInFlight == 2

Zones == {"east", "west"}

weekdays == <<"T2", "T3", "T4", "T5", "T6", "T7", "CN">>

\* populateSelects(): the year options THIS_YEAR-2 .. THIS_YEAR+1 and the
\* month options 1..12 (the year of "now" is taken to be today's year)
YearOptions  == (today[1] - 2)..(today[1] + 1)
MonthOptions == 1..12

\* select.value = v: the option with that value becomes selected; with no
\* such option nothing is selected and the value reads ""
SetSelect(options, v) == IF v \in options THEN v ELSE NoSel

OptionValues(opts) == {opts[k].value : k \in DOMAIN opts}

\* select.innerHTML = html: the first option becomes the selected one
FirstOption(opts) == IF opts = <<>> THEN NoSel ELSE opts[1].value

(***************************************************************************)
(* The HTTP data service (external): what each endpoint answers when it    *)
(* answers 2xx.  The counts are a fixed function of the day and the device.*)
(***************************************************************************)
DevicePass(dt, dev) == IF dev = "M1" THEN (DaysFromCivil(dt[1], dt[2], dt[3]) % 3) + 1
                       ELSE DaysFromCivil(dt[1], dt[2], dt[3]) % 2
DeviceFail(dt, dev) == IF dev = "M1" THEN DaysFromCivil(dt[1], dt[2], dt[3]) % 2 ELSE 1

\* the devices the service has records of
ServedDevices == <<"M1", "M2">>

DevicesOf(dev) == IF dev = "all" THEN ServedDevices ELSE <<dev>>

\* GET /logs/day/{dt}: one record per device
SrvLogs(dt, dev) ==
  [k \in DOMAIN DevicesOf(dev) |->
     [device_id |-> DevicesOf(dev)[k],
      pass |-> DevicePass(dt, DevicesOf(dev)[k]),
      fail |-> DeviceFail(dt, DevicesOf(dev)[k])]]

DayPass(dt, dev) == SeqSumOf([k \in DOMAIN DevicesOf(dev) |-> DevicePass(dt, DevicesOf(dev)[k])])
DayFail(dt, dev) == SeqSumOf([k \in DOMAIN DevicesOf(dev) |-> DeviceFail(dt, DevicesOf(dev)[k])])

\* GET /data/day/{date}: 24 hourly buckets
SrvHourly(dt, dev) ==
  [pass |-> [h \in 1..24 |-> IF h = 9 THEN DayPass(dt, dev) ELSE 0],
   fail |-> [h \in 1..24 |-> IF h = 17 THEN DayFail(dt, dev) ELSE 0]]

MonthDays(y, m) == CivilFromDays(DaysFromCivil(IF m = 12 THEN y + 1 ELSE y,
                                               IF m = 12 THEN 1 ELSE m + 1, 1) - 1).d

\* GET /data/week/{y}/{m}/{w}: one label per day of the 7-day block
SrvWeek(y, m, w, dev) ==
  LET ok    == y # NoSel /\ m \in 1..12 /\ w >= 1 /\ (w - 1) * 7 + 1 <= MonthDays(y, m)
      first == (w - 1) * 7 + 1
      last  == IF ok THEN Min(first + 6, MonthDays(y, m)) ELSE 0
      n     == IF ok THEN last - first + 1 ELSE 0
  IN  [labels |-> [i \in 1..n |-> <<y, m, first + i - 1>>],
       pass   |-> [i \in 1..n |-> DayPass(<<y, m, first + i - 1>>, dev)],
       fail   |-> [i \in 1..n |-> DayFail(<<y, m, first + i - 1>>, dev)],
       range  |-> [text |-> "range", y |-> y, m |-> m, w |-> w]]

\* GET /data/month/{y}/{m}: one label "Tuần k" per 7-day block
SrvMonth(y, m, dev) ==
  LET ok == y # NoSel /\ m \in 1..12
      n  == IF ok THEN (MonthDays(y, m) + 6) \div 7 ELSE 0
      c  == Len(DevicesOf(dev))
  IN  [labels |-> [k \in 1..n |-> <<"Tuần", k>>],
       pass   |-> [k \in 1..n |-> c * (7 * k + m)],
       fail   |-> [k \in 1..n |-> c * ((y + k) % 4)],
       month  |-> [text |-> "month", y |-> y, m |-> m, w |-> 0]]

\* GET /data/year/{y}: one label "Tháng m" per month
SrvYear(y, dev) ==
  LET n == IF y # NoSel THEN 12 ELSE 0
      c == Len(DevicesOf(dev))
  IN  [labels |-> [m \in 1..n |-> <<"Tháng", m>>],
       pass   |-> [m \in 1..n |-> c * (20 + m)],
       fail   |-> [m \in 1..n |-> c * ((y + m) % 5)]]

(***************************************************************************)
(* Runs.  A run is one call of loadDay, loadWeek, loadMonth, loadYear or   *)
(* fetchDevices that awaits a response.  dev is the deviceParam computed   *)
(* when the call started; by is the caller: "user" (an event handler),     *)
(* "start" (start() awaits it), "tick" (the timer callback awaits it, or,  *)
(* for fetchDevices, calls it).  stale is history: the outputs a younger   *)
(* run for another selection has written since.  arrived holds, in the    *)
(* order of their arrival, the settled /logs/day requests of a loadDay.    *)
(***************************************************************************)
Run(kind, pc, date, y, m, w, by) ==
  [kind |-> kind, pc |-> pc, date |-> date, y |-> y, m |-> m, w |-> w,
   dev |-> selectedDevice, by |-> by, stale |-> {}, arrived |-> <<>>]

loadDay(dateStr, by)  == Run("day", "hourly", dateStr, 0, 0, 0, by)
loadWeek(y, m, w, by) == Run("week", "fetch", <<>>, y, m, w, by)
loadMonth(y, m, by)   == Run("month", "fetch", <<>>, y, m, 0, by)
loadYear(y, by)       == Run("year", "fetch", <<>>, y, 0, 0, by)
fetchDevices(by)      == Run("devices", "fetch", <<>>, 0, 0, 0, by)

CanLaunch == Len(runs) < MaxInFlight

\* the outputs a run may still write
Targets(r) ==
  IF r.kind = "day"
  THEN (IF r.pc = "hourly" THEN {"log", "day", "week"}
        ELSE IF r.pc = "logs" THEN {"day", "week"} ELSE {"week"})
  ELSE {r.kind}

Selection(r) == <<r.kind, r.date, r.y, r.m, r.w, r.dev>>

\* run i has written output t: every older run for another selection that
\* may still write t is stale for t from now on
MarkStale(rs, i, t) ==
  [j \in DOMAIN rs |->
     IF j < i /\ t \in Targets(rs[j]) /\ Selection(rs[j]) # Selection(rs[i])
     THEN [rs[j] EXCEPT !.stale = @ \cup {t}]
     ELSE rs[j]]

Wrote(i, t) == staleWrites \cup (IF t \in runs[i].stale THEN {t} ELSE {})

RemoveAt(rs, i) == [j \in 1..(Len(rs) - 1) |-> IF j < i THEN rs[j] ELSE rs[j + 1]]

\* run i returns: its caller's continuation runs.  start() goes on to its
\* next await (lines 500-504) and finally installs the timer; the timer
\* callback calls fetchDevices() (line 520).
Return(rs, i) ==
  LET r    == rs[i]
      rest == RemoveAt(rs, i)
  IN  IF r.by = "tick" /\ r.kind # "devices"
      THEN [runs |-> Append(rest, fetchDevices("tick")), stage |-> stage]
      ELSE IF r.by = "start"
      THEN (IF r.kind = "devices"
            THEN [runs |-> Append(rest, loadDay(today, "start")), stage |-> "day"]
            ELSE IF r.kind = "day"
            THEN [runs |-> Append(rest, loadWeek(weekYear, weekMonth, weekIndex, "start")),
                  stage |-> "week"]
            ELSE IF r.kind = "week"
            THEN [runs |-> Append(rest, loadMonth(monthYear, monthSelect, "start")),
                  stage |-> "month"]
            ELSE IF r.kind = "month"
            THEN [runs |-> Append(rest, loadYear(yearSelect, "start")), stage |-> "year"]
            ELSE [runs |-> rest, stage |-> "timer"])
      ELSE [runs |-> rest, stage |-> stage]

Returns(rs, i) == \E ret \in {Return(rs, i)} : runs' = ret.runs /\ stage' = ret.stage

(***************************************************************************)
(* Selectors                                                               *)
(***************************************************************************)
\* syncSelectionsFromDate(dateStr), for a valid date
syncSelectionsFromDate(dateStr) ==
  LET d    == ParseDate(dateStr)
      yyyy == GetFullYear(d, zone)
      mm   == GetMonth1(d, zone)
      dd   == GetDate(d, zone)
      wy   == SetSelect(YearOptions, yyyy)
      wm   == SetSelect(MonthOptions, mm)
      opts == buildWeekIndex(wy, wm)
      wk   == ((dd - 1) \div 7) + 1
  IN  /\ dayInput' = dateStr
      /\ weekYear' = wy /\ monthYear' = wy /\ yearSelect' = wy
      /\ weekMonth' = wm /\ monthSelect' = wm
      /\ weekOpts' = opts
      /\ weekIndex' = SetSelect(OptionValues(opts), wk)

\* the run reloadCurrentView() starts for the active period p
reloadCurrentView(p, by) ==
  IF p = "day" THEN <<loadDay(IF dayInput # <<>> THEN dayInput ELSE today, by)>>
  ELSE IF p = "week" THEN <<loadWeek(weekYear, weekMonth, weekIndex, by)>>
  ELSE IF p = "month" THEN <<loadMonth(monthYear, monthSelect, by)>>
  ELSE IF p = "year" THEN <<loadYear(yearSelect, by)>>
  ELSE <<>>

(***************************************************************************)
(* User events                                                             *)
(***************************************************************************)
\* typing or picking a date in #dayInput (no handler runs)
dayInput_edit(d) ==
  /\ dayInput' = d
  /\ UNCHANGED <<envVars, stage, period, weekYear, weekMonth, weekIndex, weekOpts,
                 monthYear, monthSelect, yearSelect, selectedDevice, devicesList,
                 chartVars, labelVars, runs, staleWrites>>

\* #btnLoadDay (an empty input only raises an alert)
btnLoadDay_onclick ==
  /\ dayInput # <<>> /\ CanLaunch
  /\ syncSelectionsFromDate(dayInput)
  /\ runs' = Append(runs, loadDay(dayInput, "user"))
  /\ UNCHANGED <<envVars, stage, period, selectedDevice, devicesList,
                 chartVars, labelVars, staleWrites>>

\* a day button of the calendar popup (any month can be paged to)
calendarDay_onclick(iso) ==
  /\ CanLaunch
  /\ dayInput' = iso
  /\ runs' = Append(runs, loadDay(iso, "user"))
  /\ UNCHANGED <<envVars, stage, period, weekYear, weekMonth, weekIndex, weekOpts,
                 monthYear, monthSelect, yearSelect, selectedDevice, devicesList,
                 chartVars, labelVars, staleWrites>>

btnLoadWeek_onclick ==
  /\ CanLaunch
  /\ runs' = Append(runs, loadWeek(weekYear, weekMonth, weekIndex, "user"))
  /\ UNCHANGED <<envVars, stage, period, selVars, selectedDevice, devicesList,
                 chartVars, labelVars, staleWrites>>

btnLoadMonth_onclick ==
  /\ CanLaunch
  /\ runs' = Append(runs, loadMonth(monthYear, monthSelect, "user"))
  /\ UNCHANGED <<envVars, stage, period, selVars, selectedDevice, devicesList,
                 chartVars, labelVars, staleWrites>>

btnLoadYear_onclick ==
  /\ CanLaunch
  /\ runs' = Append(runs, loadYear(yearSelect, "user"))
  /\ UNCHANGED <<envVars, stage, period, selVars, selectedDevice, devicesList,
                 chartVars, labelVars, staleWrites>>

\* #weekYear / #weekMonth changed by the user: onchange = buildWeekIndex
weekYear_onchange(y) ==
  /\ y \in YearOptions /\ y # weekYear
  /\ weekYear' = y
  /\ weekOpts' = buildWeekIndex(y, weekMonth)
  /\ weekIndex' = FirstOption(buildWeekIndex(y, weekMonth))
  /\ UNCHANGED <<envVars, stage, period, dayInput, weekMonth, monthYear, monthSelect,
                 yearSelect, selectedDevice, devicesList, chartVars, labelVars,
                 runs, staleWrites>>

weekMonth_onchange(m) ==
  /\ m \in MonthOptions /\ m # weekMonth
  /\ weekMonth' = m
  /\ weekOpts' = buildWeekIndex(weekYear, m)
  /\ weekIndex' = FirstOption(buildWeekIndex(weekYear, m))
  /\ UNCHANGED <<envVars, stage, period, dayInput, weekYear, monthYear, monthSelect,
                 yearSelect, selectedDevice, devicesList, chartVars, labelVars,
                 runs, staleWrites>>

\* the selects without a handler
weekIndex_edit(w) ==
  /\ w \in OptionValues(weekOpts) /\ w # weekIndex
  /\ weekIndex' = w
  /\ UNCHANGED <<envVars, stage, period, dayInput, weekYear, weekMonth, weekOpts,
                 monthYear, monthSelect, yearSelect, selectedDevice, devicesList,
                 chartVars, labelVars, runs, staleWrites>>

monthYear_edit(y) ==
  /\ y \in YearOptions /\ y # monthYear
  /\ monthYear' = y
  /\ UNCHANGED <<envVars, stage, period, dayInput, weekYear, weekMonth, weekIndex,
                 weekOpts, monthSelect, yearSelect, selectedDevice, devicesList,
                 chartVars, labelVars, runs, staleWrites>>

monthSelect_edit(m) ==
  /\ m \in MonthOptions /\ m # monthSelect
  /\ monthSelect' = m
  /\ UNCHANGED <<envVars, stage, period, dayInput, weekYear, weekMonth, weekIndex,
                 weekOpts, monthYear, yearSelect, selectedDevice, devicesList,
                 chartVars, labelVars, runs, staleWrites>>

yearSelect_edit(y) ==
  /\ y \in YearOptions /\ y # yearSelect
  /\ yearSelect' = y
  /\ UNCHANGED <<envVars, stage, period, dayInput, weekYear, weekMonth, weekIndex,
                 weekOpts, monthYear, monthSelect, selectedDevice, devicesList,
                 chartVars, labelVars, runs, staleWrites>>

\* a .side-btn: it becomes the active one, then reloadCurrentView()
sideBtn_onclick(p) ==
  /\ CanLaunch
  /\ period' = p
  /\ runs' = runs \o reloadCurrentView(p, "user")
  /\ UNCHANGED <<envVars, stage, selVars, selectedDevice, devicesList,
                 chartVars, labelVars, staleWrites>>

\* a "Chọn" button of the rendered device list
device_onclick(name) ==
  /\ CanLaunch
  /\ devicesList = "list"
  /\ selectedDevice' = name
  /\ runs' = runs \o
       [k \in DOMAIN reloadCurrentView(period, "user") |->
          [reloadCurrentView(period, "user")[k] EXCEPT !.dev = name]]
  /\ UNCHANGED <<envVars, stage, period, selVars, devicesList,
                 chartVars, labelVars, staleWrites>>

(***************************************************************************)
(* Chart clicks (drill down); idx is the index of the element hit          *)
(***************************************************************************)
\* /^\d{4}-\d{2}-\d{2}$/.test(label)
IsFullDate(label) == Len(label) = 3

\* a handler that completes an "MM-DD" label with the year of #dayInput
chartWeek_onclick_Completing(idx) ==
  /\ idx \in DOMAIN chartWeek.labels
  /\ CanLaunch /\ dayInput # <<>>
  /\ LET label == IF IsFullDate(chartWeek.labels[idx]) THEN chartWeek.labels[idx]
                  ELSE <<dayInput[1]>> \o chartWeek.labels[idx]
     IN  /\ syncSelectionsFromDate(label)
         /\ runs' = Append(runs, loadDay(label, "user"))
  /\ UNCHANGED <<envVars, stage, period, selectedDevice, devicesList,
                 chartVars, labelVars, staleWrites>>

\* the week chart: its labels are "MM-DD" and labelsFull is never set
chartWeek_onclick(idx) ==
  /\ idx \in DOMAIN chartWeek.labels
  /\ IF IsFullDate(chartWeek.labels[idx])
     THEN /\ CanLaunch
          /\ syncSelectionsFromDate(chartWeek.labels[idx])
          /\ runs' = Append(runs, loadDay(chartWeek.labels[idx], "user"))
     ELSE UNCHANGED <<selVars, runs>>
  /\ UNCHANGED <<envVars, stage, period, selectedDevice, devicesList,
                 chartVars, labelVars, staleWrites>>

\* label.match(/Tuần\s*(\d+)/i), label.match(/Tháng\s*(\d+)/i)
LabelNumber(label, word) == IF label[1] = word THEN label[2] ELSE NoSel

chartMonth_onclick(idx) ==
  /\ idx \in DOMAIN chartMonth.labels
  /\ LET wk == LabelNumber(chartMonth.labels[idx], "Tuần")
     IN  IF wk # NoSel
         THEN /\ CanLaunch
              /\ runs' = Append(runs, loadWeek(weekYear, weekMonth, wk, "user"))
              /\ weekIndex' = SetSelect(OptionValues(weekOpts), wk)
         ELSE UNCHANGED <<runs, weekIndex>>
  /\ UNCHANGED <<envVars, stage, period, dayInput, weekYear, weekMonth, weekOpts,
                 monthYear, monthSelect, yearSelect, selectedDevice, devicesList,
                 chartVars, labelVars, staleWrites>>

chartYear_onclick(idx) ==
  /\ idx \in DOMAIN chartYear.labels
  /\ LET mon == LabelNumber(chartYear.labels[idx], "Tháng")
     IN  IF mon # NoSel
         THEN /\ CanLaunch
              /\ monthSelect' = SetSelect(MonthOptions, mon)
              /\ weekOpts' = buildWeekIndex(weekYear, weekMonth)
              /\ weekIndex' = FirstOption(buildWeekIndex(weekYear, weekMonth))
              /\ runs' = Append(runs, loadMonth(monthYear, mon, "user"))
         ELSE UNCHANGED <<monthSelect, weekOpts, weekIndex, runs>>
  /\ UNCHANGED <<envVars, stage, period, dayInput, weekYear, weekMonth,
                 monthYear, yearSelect, selectedDevice, devicesList,
                 chartVars, labelVars, staleWrites>>

(***************************************************************************)
(* The timer callback installed by start()                                 *)
(***************************************************************************)
timerTick_NoTodayGuard ==
  /\ stage = "timer" /\ CanLaunch
  /\ runs' = runs \o
       (IF period = "none" THEN <<fetchDevices("tick")>>
        ELSE reloadCurrentView(period, "tick"))
  /\ UNCHANGED <<envVars, stage, period, selVars, selectedDevice, devicesList,
                 chartVars, labelVars, staleWrites>>

timerTick_TodayOnly ==
  /\ stage = "timer" /\ CanLaunch
  /\ runs' = runs \o
       (IF period # "none" /\ dayInput = today
        THEN reloadCurrentView(period, "tick")
        ELSE <<fetchDevices("tick")>>)
  /\ UNCHANGED <<envVars, stage, period, selVars, selectedDevice, devicesList,
                 chartVars, labelVars, staleWrites>>

timerTick ==
  /\ stage = "timer" /\ CanLaunch
  /\ runs' = runs \o
       (IF period = "day" /\ dayInput = today THEN <<loadDay(dayInput, "tick")>>
        ELSE IF period = "week"
        THEN <<loadWeek(weekYear, weekMonth, weekIndex, "tick")>>
        ELSE IF period = "month" THEN <<loadMonth(monthYear, monthSelect, "tick")>>
        ELSE IF period = "year" THEN <<loadYear(yearSelect, "tick")>>
        ELSE <<fetchDevices("tick")>>)
  /\ UNCHANGED <<envVars, stage, period, selVars, selectedDevice, devicesList,
                 chartVars, labelVars, staleWrites>>

(***************************************************************************)
(* Responses.  ok says whether the request was answered 2xx; a failed      *)
(* request makes fetchJSON throw.                                          *)
(***************************************************************************)
Label(text, y, m, w) == [text |-> text, y |-> y, m |-> m, w |-> w]
ErrorLabel == Label("Lỗi", 0, 0, 0)
NoLabel    == Label("", 0, 0, 0)

\* l.slice(5) of a "YYYY-MM-DD" label
Slice5(labels) == [k \in DOMAIN labels |-> <<labels[k][2], labels[k][3]>>]

\* `${weekdays[dd.getDay() === 0 ? 6 : dd.getDay()-1]} ${d.slice(5)}`
DayLabel(d) ==
  LET wd == GetDay(ParseDate(d), zone)
  IN  <<weekdays[(IF wd = 0 THEN 6 ELSE wd - 1) + 1], d[2], d[3]>>

\* the week request of loadDay: the year and month of the date string and
\* Math.floor((day-1)/7)+1
WeekIdxOf(dateStr) == ((dateStr[3] - 1) \div 7) + 1

\* a request whose URL has an empty path segment is never answered 2xx
Answerable(r) ==
  /\ r.kind = "week" => r.y # NoSel /\ r.m # NoSel /\ r.w # NoSel
  /\ r.kind = "month" => r.y # NoSel /\ r.m # NoSel
  /\ r.kind = "year" => r.y # NoSel

\* a loadDay without its try/catch: a failed hourly request rejects the
\* caller's await, and the caller never reaches its next statement
loadDay_hourly_Uncaught(i, ok) ==
  /\ i \in DOMAIN runs /\ runs[i].kind = "day" /\ runs[i].pc = "hourly"
  /\ IF ok
     THEN /\ \E hourly \in {SrvHourly(runs[i].date, runs[i].dev)} :
               logTable' = [date |-> runs[i].date,
                            pass |-> hourly.pass, fail |-> hourly.fail]
          /\ runs' = [MarkStale(runs, i, "log") EXCEPT ![i].pc = "logs"]
          /\ staleWrites' = Wrote(i, "log")
          /\ UNCHANGED stage
     ELSE /\ runs' = RemoveAt(runs, i)
          /\ UNCHANGED <<stage, logTable, staleWrites>>
  /\ UNCHANGED <<envVars, period, selVars, selectedDevice, devicesList,
                 chartDay, chartWeek, chartMonth, chartYear, labelVars>>

\* loadDay, step 1: the hourly response; renderDayLog, then the seven
\* /logs/day requests are issued
loadDay_hourly(i, ok) ==
  /\ i \in DOMAIN runs /\ runs[i].kind = "day" /\ runs[i].pc = "hourly"
  /\ IF ok
     THEN /\ \E hourly \in {SrvHourly(runs[i].date, runs[i].dev)} :
               logTable' = [date |-> runs[i].date,
                            pass |-> hourly.pass, fail |-> hourly.fail]
          /\ runs' = [MarkStale(runs, i, "log") EXCEPT ![i].pc = "logs"]
          /\ staleWrites' = Wrote(i, "log")
          /\ UNCHANGED stage
     ELSE /\ Returns(runs, i)
          /\ UNCHANGED <<logTable, staleWrites>>
  /\ UNCHANGED <<envVars, period, selVars, selectedDevice, devicesList,
                 chartDay, chartWeek, chartMonth, chartYear, labelVars>>

\* loadDay, step 2: Promise.all over the seven requests has settled; failed
\* is the set of week-day indexes whose request failed (each caught into []).
\* The grouped bar chart is written and the week request is issued.
loadDay_logs(i, failed) ==
  /\ i \in DOMAIN runs /\ runs[i].kind = "day" /\ runs[i].pc = "logs"
  /\ \E weekDates \in {weekDatesFrom(runs[i].date, zone)} :
     \E perDayArr \in {[k \in 1..7 |-> IF k \in failed THEN <<>>
                                      ELSE SrvLogs(weekDates[k], runs[i].dev)]} :
       LET passArr == [k \in 1..7 |->
                         SeqSumOf([n \in DOMAIN perDayArr[k] |-> perDayArr[k][n].pass])]
           failArr == [k \in 1..7 |->
                         SeqSumOf([n \in DOMAIN perDayArr[k] |-> perDayArr[k][n].fail])]
       IN  chartDay' = [labels |-> [k \in 1..7 |-> DayLabel(weekDates[k])],
                        pass |-> passArr, fail |-> failArr]
  /\ runs' = [MarkStale(runs, i, "day") EXCEPT ![i].pc = "week"]
  /\ staleWrites' = Wrote(i, "day")
  /\ UNCHANGED <<envVars, stage, period, selVars, selectedDevice, devicesList,
                 logTable, chartWeek, chartMonth, chartYear, labelVars>>

\* loadDay, step 2 request by request.  All seven requests are issued by
\* weekDates.map before the await; request k (1..7) settles: answered with
\* the records of weekDates[k], or failed and caught into [].
logsDay_response(i, k, ok) ==
  /\ i \in DOMAIN runs /\ runs[i].kind = "day" /\ runs[i].pc = "logs"
  /\ k \in 1..7 /\ \A n \in DOMAIN runs[i].arrived : runs[i].arrived[n].k # k
  /\ runs' = [runs EXCEPT ![i].arrived =
                Append(@, [k |-> k, ok |-> ok,
                           body |-> IF ok
                                    THEN SrvLogs(weekDatesFrom(runs[i].date, zone)[k],
                                                 runs[i].dev)
                                    ELSE <<>>])]
  /\ UNCHANGED <<envVars, stage, period, selVars, selectedDevice, devicesList,
                 logTable, chartVars, labelVars, staleWrites>>

\* results taken in the order of arrival
PromiseAll_ArrivalOrder(arrived) == [k \in 1..7 |-> arrived[k].body]

\* Promise.all resolves to the results in the order of the promises,
\* whatever the order of arrival
PromiseAll(arrived) ==
  [k \in 1..7 |-> arrived[CHOOSE n \in DOMAIN arrived : arrived[n].k = k].body]

\* all seven have settled: perDayArr.forEach sums into passArr[idx] and
\* failArr[idx], the grouped bar chart is written, the week request issued
loadDay_assemble(i) ==
  /\ i \in DOMAIN runs /\ runs[i].kind = "day" /\ runs[i].pc = "logs"
  /\ Len(runs[i].arrived) = 7
  /\ \E weekDates \in {weekDatesFrom(runs[i].date, zone)} :
     \E perDayArr \in {PromiseAll(runs[i].arrived)} :
       LET passArr == [k \in 1..7 |->
                         SeqSumOf([n \in DOMAIN perDayArr[k] |-> perDayArr[k][n].pass])]
           failArr == [k \in 1..7 |->
                         SeqSumOf([n \in DOMAIN perDayArr[k] |-> perDayArr[k][n].fail])]
       IN  chartDay' = [labels |-> [k \in 1..7 |-> DayLabel(weekDates[k])],
                        pass |-> passArr, fail |-> failArr]
  /\ runs' = [MarkStale(runs, i, "day") EXCEPT ![i].pc = "week"]
  /\ staleWrites' = Wrote(i, "day")
  /\ UNCHANGED <<envVars, stage, period, selVars, selectedDevice, devicesList,
                 logTable, chartWeek, chartMonth, chartYear, labelVars>>

\* a loadDay that builds the device parameter anew for its week request
loadDay_week_LateDevice(i, ok) ==
  /\ i \in DOMAIN runs /\ runs[i].kind = "day" /\ runs[i].pc = "week"
  /\ IF ok
     THEN /\ \E weekData \in {SrvWeek(runs[i].date[1], runs[i].date[2],
                                       WeekIdxOf(runs[i].date), selectedDevice)} :
               \E cum \in {toCumulative(weekData)} :
                 chartWeek' = [labels |-> Slice5(weekData.labels),
                               d0 |-> cum.passCum, d1 |-> cum.failCum]
          /\ Returns(MarkStale(runs, i, "week"), i)
          /\ staleWrites' = Wrote(i, "week")
     ELSE /\ Returns(runs, i)
          /\ UNCHANGED <<chartWeek, staleWrites>>
  /\ UNCHANGED <<envVars, period, selVars, selectedDevice, devicesList,
                 logTable, chartDay, chartMonth, chartYear, labelVars>>

\* a loadDay that empties the area chart when its week request fails
loadDay_week_Clearing(i, ok) ==
  /\ i \in DOMAIN runs /\ runs[i].kind = "day" /\ runs[i].pc = "week"
  /\ IF ok
     THEN /\ \E weekData \in {SrvWeek(runs[i].date[1], runs[i].date[2],
                                       WeekIdxOf(runs[i].date), runs[i].dev)} :
               \E cum \in {toCumulative(weekData)} :
                 chartWeek' = [labels |-> Slice5(weekData.labels),
                               d0 |-> cum.passCum, d1 |-> cum.failCum]
          /\ Returns(MarkStale(runs, i, "week"), i)
          /\ staleWrites' = Wrote(i, "week")
     ELSE /\ chartWeek' = [labels |-> <<>>, d0 |-> <<>>, d1 |-> <<>>]
          /\ Returns(runs, i)
          /\ UNCHANGED staleWrites
  /\ UNCHANGED <<envVars, period, selVars, selectedDevice, devicesList,
                 logTable, chartDay, chartMonth, chartYear, labelVars>>

\* loadDay, step 3: the week response; the cumulative area chart
loadDay_week(i, ok) ==
  /\ i \in DOMAIN runs /\ runs[i].kind = "day" /\ runs[i].pc = "week"
  /\ IF ok
     THEN /\ \E weekData \in {SrvWeek(runs[i].date[1], runs[i].date[2],
                                       WeekIdxOf(runs[i].date), runs[i].dev)} :
               \E cum \in {toCumulative(weekData)} :
                 chartWeek' = [labels |-> Slice5(weekData.labels),
                               d0 |-> cum.passCum, d1 |-> cum.failCum]
          /\ Returns(MarkStale(runs, i, "week"), i)
          /\ staleWrites' = Wrote(i, "week")
     ELSE /\ Returns(runs, i)
          /\ UNCHANGED <<chartWeek, staleWrites>>
  /\ UNCHANGED <<envVars, period, selVars, selectedDevice, devicesList,
                 logTable, chartDay, chartMonth, chartYear, labelVars>>

\* a loader that clears the chart when its request fails
loadWeek_response_Blanking(i, ok) ==
  /\ i \in DOMAIN runs /\ runs[i].kind = "week"
  /\ ok => Answerable(runs[i])
  /\ IF ok
     THEN /\ \E j \in {SrvWeek(runs[i].y, runs[i].m, runs[i].w, runs[i].dev)} :
               /\ chartWeek' = [labels |-> Slice5(j.labels), d0 |-> j.pass, d1 |-> j.fail]
               /\ weekLabel' = j.range
          /\ Returns(MarkStale(runs, i, "week"), i)
          /\ staleWrites' = Wrote(i, "week")
     ELSE /\ weekLabel' = ErrorLabel
          /\ chartWeek' = [labels |-> <<>>, d0 |-> <<>>, d1 |-> <<>>]
          /\ Returns(runs, i)
          /\ UNCHANGED staleWrites
  /\ UNCHANGED <<envVars, period, selVars, selectedDevice, devicesList,
                 logTable, chartDay, chartMonth, chartYear, monthLabel, yearLabel>>

loadWeek_response(i, ok) ==
  /\ i \in DOMAIN runs /\ runs[i].kind = "week"
  /\ ok => Answerable(runs[i])
  /\ IF ok
     THEN /\ \E j \in {SrvWeek(runs[i].y, runs[i].m, runs[i].w, runs[i].dev)} :
               /\ chartWeek' = [labels |-> Slice5(j.labels), d0 |-> j.pass, d1 |-> j.fail]
               /\ weekLabel' = j.range
          /\ Returns(MarkStale(runs, i, "week"), i)
          /\ staleWrites' = Wrote(i, "week")
     ELSE /\ weekLabel' = ErrorLabel
          /\ Returns(runs, i)
          /\ UNCHANGED <<chartWeek, staleWrites>>
  /\ UNCHANGED <<envVars, period, selVars, selectedDevice, devicesList,
                 logTable, chartDay, chartMonth, chartYear, monthLabel, yearLabel>>

\* a loader that appends what it receives to what the chart holds
loadMonth_response_Accumulating(i, ok) ==
  /\ i \in DOMAIN runs /\ runs[i].kind = "month"
  /\ ok => Answerable(runs[i])
  /\ IF ok
     THEN /\ \E j \in {SrvMonth(runs[i].y, runs[i].m, runs[i].dev)} :
               /\ chartMonth' = [labels |-> chartMonth.labels \o j.labels,
                                 d0 |-> chartMonth.d0 \o j.pass,
                                 d1 |-> chartMonth.d1 \o j.fail,
                                 d2 |-> chartMonth.d2 \o toRate(j)]
               /\ monthLabel' = j.month
          /\ Returns(MarkStale(runs, i, "month"), i)
          /\ staleWrites' = Wrote(i, "month")
     ELSE /\ monthLabel' = ErrorLabel
          /\ Returns(runs, i)
          /\ UNCHANGED <<chartMonth, staleWrites>>
  /\ UNCHANGED <<envVars, period, selVars, selectedDevice, devicesList,
                 logTable, chartDay, chartWeek, chartYear, weekLabel, yearLabel>>

loadMonth_response(i, ok) ==
  /\ i \in DOMAIN runs /\ runs[i].kind = "month"
  /\ ok => Answerable(runs[i])
  /\ IF ok
     THEN /\ \E j \in {SrvMonth(runs[i].y, runs[i].m, runs[i].dev)} :
               /\ chartMonth' = [labels |-> j.labels, d0 |-> j.pass, d1 |-> j.fail,
                                 d2 |-> toRate(j)]
               /\ monthLabel' = j.month
          /\ Returns(MarkStale(runs, i, "month"), i)
          /\ staleWrites' = Wrote(i, "month")
     ELSE /\ monthLabel' = ErrorLabel
          /\ Returns(runs, i)
          /\ UNCHANGED <<chartMonth, staleWrites>>
  /\ UNCHANGED <<envVars, period, selVars, selectedDevice, devicesList,
                 logTable, chartDay, chartWeek, chartYear, weekLabel, yearLabel>>

loadYear_response(i, ok) ==
  /\ i \in DOMAIN runs /\ runs[i].kind = "year"
  /\ ok => Answerable(runs[i])
  /\ IF ok
     THEN /\ \E j \in {SrvYear(runs[i].y, runs[i].dev)} :
               chartYear' = [labels |-> j.labels, d0 |-> j.pass, d1 |-> j.fail,
                             d2 |-> toRate(j)]
          /\ yearLabel' = Label("year", runs[i].y, 0, 0)
          /\ Returns(MarkStale(runs, i, "year"), i)
          /\ staleWrites' = Wrote(i, "year")
     ELSE /\ yearLabel' = ErrorLabel
          /\ Returns(runs, i)
          /\ UNCHANGED <<chartYear, staleWrites>>
  /\ UNCHANGED <<envVars, period, selVars, selectedDevice, devicesList,
                 logTable, chartDay, chartWeek, chartMonth, weekLabel, monthLabel>>

\* fetchDevices: renderDevices(arr), or the connection-error text
fetchDevices_response(i, ok) ==
  /\ i \in DOMAIN runs /\ runs[i].kind = "devices"
  /\ devicesList' = IF ok THEN "list" ELSE "error"
  /\ Returns(runs, i)
  /\ UNCHANGED <<envVars, period, selVars, selectedDevice, chartVars, labelVars,
                 staleWrites>>

(***************************************************************************)
(* Responses that are 2xx and parse as JSON but are not the payload the    *)
(* loaders expect.  shape says how the answer differs from the service's:  *)
(* "noPass" / "noFail" - the pass / fail array is missing; "shortPass" -   *)
(* pass has one entry less than labels; "plainLabels" - well formed, but   *)
(* the labels are bare numbers ("01", "02", ...).                          *)
(***************************************************************************)
MalformedShapes == {"noPass", "noFail", "shortPass"}
Shapes          == MalformedShapes \cup {"plainLabels"}

Shaped(j, shape) ==
  [labels  |-> IF shape = "plainLabels"
               THEN [k \in DOMAIN j.labels |-> <<"", j.labels[k][2]>>]
               ELSE j.labels,
   pass    |-> IF shape = "shortPass" /\ j.pass # <<>>
               THEN SubSeq(j.pass, 1, Len(j.pass) - 1) ELSE j.pass,
   fail    |-> j.fail,
   hasPass |-> shape # "noPass",
   hasFail |-> shape # "noFail"]

\* loadWeek: labels, then j.pass.map (throws on a missing array), then
\* j.fail.map, then the label; the catch writes the error placeholder
loadWeek_shaped(i, shape) ==
  /\ shape \in MalformedShapes     \* the week labels are dates: no bare numbers
  /\ i \in DOMAIN runs /\ runs[i].kind = "week" /\ Answerable(runs[i])
  /\ \E j \in {Shaped(SrvWeek(runs[i].y, runs[i].m, runs[i].w, runs[i].dev), shape)} :
       /\ chartWeek' = [labels |-> Slice5(j.labels),
                        d0 |-> IF j.hasPass THEN j.pass ELSE chartWeek.d0,
                        d1 |-> IF j.hasPass /\ j.hasFail THEN j.fail ELSE chartWeek.d1]
       /\ weekLabel' = IF j.hasPass /\ j.hasFail
                       THEN SrvWeek(runs[i].y, runs[i].m, runs[i].w, runs[i].dev).range
                       ELSE ErrorLabel
  /\ Returns(MarkStale(runs, i, "week"), i)
  /\ staleWrites' = Wrote(i, "week")
  /\ UNCHANGED <<envVars, period, selVars, selectedDevice, devicesList,
                 logTable, chartDay, chartMonth, chartYear, monthLabel, yearLabel>>

\* loadMonth: labels, j.pass.map, j.fail.map, the rate over the labels (a
\* missing entry counts 0), then the label
loadMonth_shaped(i, shape) ==
  /\ i \in DOMAIN runs /\ runs[i].kind = "month" /\ Answerable(runs[i])
  /\ \E j \in {Shaped(SrvMonth(runs[i].y, runs[i].m, runs[i].dev), shape)} :
       /\ chartMonth' = [labels |-> j.labels,
                         d0 |-> IF j.hasPass THEN j.pass ELSE chartMonth.d0,
                         d1 |-> IF j.hasPass /\ j.hasFail THEN j.fail ELSE chartMonth.d1,
                         d2 |-> IF j.hasPass /\ j.hasFail THEN toRate(j) ELSE chartMonth.d2]
       /\ monthLabel' = IF j.hasPass /\ j.hasFail
                        THEN SrvMonth(runs[i].y, runs[i].m, runs[i].dev).month
                        ELSE ErrorLabel
  /\ Returns(MarkStale(runs, i, "month"), i)
  /\ staleWrites' = Wrote(i, "month")
  /\ UNCHANGED <<envVars, period, selVars, selectedDevice, devicesList,
                 logTable, chartDay, chartWeek, chartYear, weekLabel, yearLabel>>

\* loadYear: labels, then passArr and failArr are both built (either map
\* throws on a missing array) before the datasets are written
loadYear_shaped(i, shape) ==
  /\ i \in DOMAIN runs /\ runs[i].kind = "year" /\ Answerable(runs[i])
  /\ \E j \in {Shaped(SrvYear(runs[i].y, runs[i].dev), shape)} :
       /\ chartYear' = [labels |-> j.labels,
                        d0 |-> IF j.hasPass /\ j.hasFail THEN j.pass ELSE chartYear.d0,
                        d1 |-> IF j.hasPass /\ j.hasFail THEN j.fail ELSE chartYear.d1,
                        d2 |-> IF j.hasPass /\ j.hasFail THEN toRate(j) ELSE chartYear.d2]
       /\ yearLabel' = IF j.hasPass /\ j.hasFail
                       THEN Label("year", runs[i].y, 0, 0) ELSE ErrorLabel
  /\ Returns(MarkStale(runs, i, "year"), i)
  /\ staleWrites' = Wrote(i, "year")
  /\ UNCHANGED <<envVars, period, selVars, selectedDevice, devicesList,
                 logTable, chartDay, chartWeek, chartMonth, weekLabel, monthLabel>>

(***************************************************************************)
(* start(): the synchronous part up to `await fetchDevices()` (lines       *)
(* 491-500) has run.                                                       *)
(***************************************************************************)
Todays == {<<2024, 3, 1>>}

EmptyChart2 == [labels |-> <<>>, d0 |-> <<>>, d1 |-> <<>>]
EmptyChart3 == [labels |-> <<>>, d0 |-> <<>>, d1 |-> <<>>, d2 |-> <<>>]

UIInit ==
  /\ zone \in Zones
  /\ today \in Todays
  /\ stage = "devices"
  /\ period \in {"none", "day"}
  /\ selectedDevice = "all"
  /\ devicesList = "none"
  /\ LET d    == ParseDate(today)
         wy   == SetSelect(YearOptions, GetFullYear(d, zone))
         wm   == SetSelect(MonthOptions, GetMonth1(d, zone))
         opts == buildWeekIndex(wy, wm)
     IN  /\ dayInput = today
         /\ weekYear = wy /\ monthYear = wy /\ yearSelect = wy
         /\ weekMonth = wm /\ monthSelect = wm
         /\ weekOpts = opts
         /\ weekIndex = SetSelect(OptionValues(opts), ((GetDate(d, zone) - 1) \div 7) + 1)
  /\ logTable = [date |-> <<>>, pass |-> <<>>, fail |-> <<>>]
  /\ chartDay = [labels |-> <<>>, pass |-> <<>>, fail |-> <<>>]
  /\ chartWeek = EmptyChart2
  /\ chartMonth = EmptyChart3
  /\ chartYear = EmptyChart3
  /\ weekLabel = NoLabel /\ monthLabel = NoLabel /\ yearLabel = NoLabel
  /\ runs = <<[kind |-> "devices", pc |-> "fetch", date |-> <<>>, y |-> 0, m |-> 0,
               w |-> 0, dev |-> "all", by |-> "start", stale |-> {}]>>
  /\ staleWrites = {}

(***************************************************************************)
(* The running page                                                        *)
(***************************************************************************)
Init == UIInit /\ fn = "page" /\ arg = NoRes /\ res = NoRes

\* nothing is in flight
Quiet == runs = <<>>

\* the responses of the runs in flight: oks are the outcomes a single request
\* may have, failSets the sets of /logs/day requests that may fail together
Response(oks, failSets) ==
  \E i \in DOMAIN runs :
    \/ \E ok \in oks : loadDay_hourly(i, ok)
    \/ \E failed \in failSets : loadDay_logs(i, failed)
    \/ \E ok \in oks : loadDay_week(i, ok)
    \/ \E ok \in oks : loadWeek_response(i, ok)
    \/ \E ok \in oks : loadMonth_response(i, ok)
    \/ \E ok \in oks : loadYear_response(i, ok)
    \/ \E ok \in oks : fetchDevices_response(i, ok)

Periods == {"day", "week", "month", "year"}

\* overlapping loads of the day and week views: the user picks a day or
\* presses "load week" while earlier runs are still awaiting their responses
RaceDates == {<<2024, 3, 10>>}
RaceFails == {{}}

RaceNext ==
  \/ \E d \in RaceDates : calendarDay_onclick(d)
  \/ btnLoadWeek_onclick
  \/ Response(BOOLEAN, RaceFails)

SpecRace == Init /\ [][RaceNext]_vars

\* the day view: after the startup load of today (a Friday) a Sunday is
\* picked on a settled page, for all devices or for one, and any of the seven
\* /logs/day requests may fail
DayDates == {<<2024, 3, 10>>}

DayNext ==
  \/ Quiet /\ \E d \in DayDates : calendarDay_onclick(d)
  \/ Quiet /\ device_onclick("M1")
  \/ Response({TRUE}, SUBSET (1..7))

SpecDay == Init /\ [][DayNext]_vars

\* the timer and what decides the load a tick starts: the active period,
\* the date in #dayInput and the selectors (edited on a settled page)
TickDates == {<<>>, <<2024, 3, 10>>}
TickYears == {2023}

TickNext ==
  \/ timerTick
  \/ Quiet /\ \E p \in Periods : sideBtn_onclick(p)
  \/ Quiet /\ \E d \in TickDates : d # dayInput /\ dayInput_edit(d)
  \/ Quiet /\ \E w \in 1..2 : weekIndex_edit(w)
  \/ Quiet /\ \E y \in TickYears : monthYear_edit(y)
  \/ Quiet /\ \E y \in TickYears : yearSelect_edit(y)
  \/ Response({TRUE}, {{}})

SpecTick == Init /\ [][TickNext]_vars

\* navigation on a settled page: dates, selectors, load buttons, drill-down
NavDates  == {<<2024, 3, 1>>, <<2024, 3, 31>>}
NavYears  == {2023, 2024}
NavMonths == {2, 3}

NavNext ==
  \/ Quiet /\ \E d \in NavDates : d # dayInput /\ dayInput_edit(d)
  \/ Quiet /\ btnLoadDay_onclick
  \/ Quiet /\ \E d \in NavDates : calendarDay_onclick(d)
  \/ Quiet /\ \E y \in NavYears : weekYear_onchange(y)
  \/ Quiet /\ \E m \in NavMonths : weekMonth_onchange(m)
  \/ Quiet /\ \E m \in NavMonths : monthSelect_edit(m)
  \/ Quiet /\ btnLoadWeek_onclick
  \/ Quiet /\ btnLoadMonth_onclick
  \/ Quiet /\ btnLoadYear_onclick
  \/ Quiet /\ \E idx \in 1..7 : chartWeek_onclick(idx)
  \/ Quiet /\ \E idx \in 1..5 : chartMonth_onclick(idx)
  \/ Quiet /\ \E idx \in NavMonths : chartYear_onclick(idx)
  \/ Response({TRUE}, {{}})

SpecNav == Init /\ [][NavNext]_vars

\* startup and the timer with requests that fail: any single request, and
\* the /logs/day request of one day of the week
StartFails == {{}, {3}}

StartNext ==
  \/ timerTick
  \/ Quiet /\ \E p \in Periods : sideBtn_onclick(p)
  \/ Response(BOOLEAN, StartFails)

SpecStart == Init /\ [][StartNext]_vars

\* the seven /logs/day requests of the first loadDay settling one by one, in
\* every order; LogsFailing are the requests that may fail
LogsFailing == {3}

LogsNext ==
  \/ \E i \in DOMAIN runs : \E k \in 1..7 :
       \E ok \in {TRUE} \cup {k \notin LogsFailing} : logsDay_response(i, k, ok)
  \/ \E i \in DOMAIN runs : loadDay_assemble(i)
  \/ Response({TRUE}, {})

SpecLogs == Init /\ [][LogsNext]_vars

\* the device filter changed while loads are in flight: during startup,
\* and later while the reloads of the day view are
DeviceNames == {"M1", "all"}

DeviceNext ==
  \/ \E name \in DeviceNames : device_onclick(name)
  \/ Response({TRUE}, {{}})

SpecDevice == Init /\ [][DeviceNext]_vars

\* dates typed into #dayInput and loaded with the "load day" button: month
\* ends, week-block borders, both Februaries
SyncDates == {<<2023, 2, 28>>, <<2024, 2, 1>>, <<2024, 2, 29>>,
              <<2024, 3, 8>>, <<2024, 3, 31>>}

SyncNext ==
  \/ Quiet /\ \E d \in SyncDates : d # dayInput /\ dayInput_edit(d)
  \/ Quiet /\ btnLoadDay_onclick
  \/ Response({TRUE}, {{}})

SpecSync == Init /\ [][SyncNext]_vars

\* one loadDay at a time, for another date than the one shown, with requests
\* that fail
OrderDates == {<<2024, 3, 10>>}
OrderFails == {{}, {3}}

OrderNext ==
  \/ Quiet /\ \E d \in OrderDates : calendarDay_onclick(d)
  \/ Response(BOOLEAN, OrderFails)

SpecOrder == Init /\ [][OrderNext]_vars

\* answers of every shape, reloads, and clicks on what the charts then show
ShapeClicks == {1}

ShapeNext ==
  \/ Quiet /\ btnLoadYear_onclick
  \/ Quiet /\ \E idx \in ShapeClicks : chartWeek_onclick(idx)
  \/ Quiet /\ \E idx \in ShapeClicks : chartMonth_onclick(idx)
  \/ Quiet /\ \E idx \in ShapeClicks : chartYear_onclick(idx)
  \/ \E i \in DOMAIN runs : \E shape \in MalformedShapes : loadWeek_shaped(i, shape)
  \/ \E i \in DOMAIN runs : \E shape \in Shapes : loadMonth_shaped(i, shape)
  \/ \E i \in DOMAIN runs : \E shape \in Shapes : loadYear_shaped(i, shape)
  \/ Response({TRUE}, {{}})

SpecShape == Init /\ [][ShapeNext]_vars

(***************************************************************************)
(* The pure functions on enumerated inputs                                 *)
(***************************************************************************)
FnYearLo == 2023
FnYearHi == 2024
MaxLen   == 3
MaxVal   == 2
MaxCount == 23

\* Gregorian month lengths, as the calendar defines them
DaysInMonth(y, m) ==
  IF m = 2 THEN (IF (y % 4 = 0 /\ y % 100 # 0) \/ y % 400 = 0 THEN 29 ELSE 28)
  ELSE IF m \in {4, 6, 9, 11} THEN 30 ELSE 31

DatesOf(years) ==
  {<<y, m, d>> : y \in years, m \in 1..12, d \in 1..31} \ 
  {s \in years \X (1..12) \X (1..31) : s[3] > DaysInMonth(s[1], s[2])}

SeqsUpTo(S, n) == UNION {[1..k -> S] : k \in 0..n}

\* a payload whose labels, pass and fail have independent lengths
Payloads ==
  {[labels |-> [i \in 1..n |-> i], pass |-> ps, fail |-> fs] :
     n \in 0..MaxLen, ps \in SeqsUpTo(0..MaxVal, MaxLen), fs \in {<<>>, <<0>>, <<1, 2>>, <<2, 0, 1>>}}

Scenario2 == [labels |-> <<1, 2>>, pass |-> <<40, 35>>, fail |-> <<10, 5>>]

RatePayloads ==
  {[labels |-> <<1>>, pass |-> <<p>>, fail |-> <<f>>] : p \in 0..MaxCount, f \in 0..MaxCount}
    \cup {Scenario2}

\* the page as start() finds it, before any response
FnInit ==
  /\ UIInit /\ zone = "east" /\ period = "none"
  /\ res = NoRes
  /\ \/ fn = "weekDatesFrom" /\ arg \in [date : DatesOf(FnYearLo..FnYearHi), zone : Zones]
     \/ fn = "buildWeekIndex" /\ arg \in [y : {1900, 2000} \cup (FnYearLo..FnYearHi), m : 1..12]
     \/ fn = "toCumulative" /\ arg \in Payloads
     \/ fn = "toRate" /\ arg \in RatePayloads

ApplyWeekDatesFrom ==
  /\ fn = "weekDatesFrom" /\ res = NoRes
  /\ res' = [out |-> weekDatesFrom(arg.date, arg.zone)]
  /\ UNCHANGED <<fn, arg, stage, period, selVars, selectedDevice, devicesList,
                 chartVars, labelVars, runs, staleWrites, zone, today>>

ApplyBuildWeekIndex ==
  /\ fn = "buildWeekIndex" /\ res = NoRes
  /\ res' = [out |-> buildWeekIndex(arg.y, arg.m)]
  /\ UNCHANGED <<fn, arg, stage, period, selVars, selectedDevice, devicesList,
                 chartVars, labelVars, runs, staleWrites, zone, today>>

ApplyToCumulative ==
  /\ fn = "toCumulative" /\ res = NoRes
  /\ res' = [out |-> toCumulative(arg)]
  /\ UNCHANGED <<fn, arg, stage, period, selVars, selectedDevice, devicesList,
                 chartVars, labelVars, runs, staleWrites, zone, today>>

ApplyToRate ==
  /\ fn = "toRate" /\ res = NoRes
  /\ res' = [out |-> toRate(arg)]
  /\ UNCHANGED <<fn, arg, stage, period, selVars, selectedDevice, devicesList,
                 chartVars, labelVars, runs, staleWrites, zone, today>>

FnNext == ApplyWeekDatesFrom \/ ApplyBuildWeekIndex \/ ApplyToCumulative \/ ApplyToRate

SpecFn == FnInit /\ [][FnNext]_vars

Done(f) == fn = f /\ res # NoRes

(***************************************************************************)
(* Properties of the pure functions (checked under SpecFn).                *)
(***************************************************************************)
DayNo(s)   == DaysFromCivil(s[1], s[2], s[3])
Weekday(s) == (DayNo(s) + 4) % 7      \* 0 = Sunday, 1 = Monday

RECURSIVE SeqSum(_)
SeqSum(q) == IF q = <<>> THEN 0 ELSE q[1] + SeqSum(Tail(q))

\* C5: for every date D, weekDatesFrom(D) is 7 consecutive calendar dates,
\* the first a Monday, containing D; a Sunday D is the last element and the
\* first element is 6 days before it.
C5_WeekWindow ==
  Done("weekDatesFrom") =>
    LET w == res.out
        D == arg.date
    IN  /\ Len(w) = 7
        /\ \A i \in 1..6 : DayNo(w[i + 1]) = DayNo(w[i]) + 1
        /\ Weekday(w[1]) = 1
        /\ \E i \in 1..7 : w[i] = D
        /\ Weekday(D) = 0 => (w[7] = D /\ DayNo(w[1]) = DayNo(D) - 6)

\* C6: the week blocks built by buildWeekIndex are block k = days
\* (k-1)*7+1 .. min((k-1)*7+7, daysInMonth); they partition 1..daysInMonth
\* without gap or overlap and their lengths sum to daysInMonth(year, month).
C6_WeekBlocksPartition ==
  Done("buildWeekIndex") =>
    LET o == res.out
        N == DaysInMonth(arg.y, arg.m)
    IN  /\ \A k \in 1..Len(o) :
             /\ o[k].value = k
             /\ o[k].start = (k - 1) * 7 + 1
             /\ o[k].end = Min((k - 1) * 7 + 7, N)
             /\ 1 <= o[k].start /\ o[k].start <= o[k].end /\ o[k].end <= N
        /\ \A d \in 1..N :
             Cardinality({k \in 1..Len(o) : o[k].start <= d /\ d <= o[k].end}) = 1
        /\ SeqSum([k \in 1..Len(o) |-> o[k].end - o[k].start + 1]) = N

\* a leap-year February has been partitioned: 29 days, five blocks
C6_Witness ==
  /\ Done("buildWeekIndex") /\ arg = [y |-> 2024, m |-> 2]
  /\ Len(res.out) = 5 /\ res.out[5].end = 29

WellFormed(j) == Len(j.pass) = Len(j.labels) /\ Len(j.fail) = Len(j.labels)

IsPrefixSums(cum, raw) ==
  /\ Len(cum) = Len(raw)
  /\ \A i \in 1..Len(cum) : cum[i] = (IF i = 1 THEN 0 ELSE cum[i - 1]) + raw[i]
  /\ \A i \in 1..Len(cum) - 1 : cum[i] <= cum[i + 1]
  /\ Len(cum) > 0 => cum[Len(cum)] = SeqSum(raw)
  /\ raw = <<>> => cum = <<>>

\* C9: the cumulative series loadDay computes from a week payload are the
\* running prefix sums in label order, non-decreasing for non-negative
\* counts, ending in the sum of the pass (resp. fail) array; an empty payload
\* gives empty series.
C9_Cumulative ==
  (Done("toCumulative") /\ WellFormed(arg)) =>
    /\ IsPrefixSums(res.out.passCum, arg.pass)
    /\ IsPrefixSums(res.out.failCum, arg.fail)

\* a payload of several days whose last cumulative value exceeds its last raw value
C9_Witness ==
  /\ Done("toCumulative") /\ WellFormed(arg) /\ Len(arg.labels) >= 2
  /\ res.out.passCum[Len(arg.labels)] > arg.pass[Len(arg.labels)]
  /\ res.out.failCum[Len(arg.labels)] > arg.fail[Len(arg.labels)]

\* round(100*p/(p+f)) with halves rounded up, 0 for an empty bucket
ExactRate(p, f) == IF p + f = 0 THEN 0 ELSE (200 * p + (p + f)) \div (2 * (p + f))

\* C10: every pass rate written to the month and year chart is
\* round(100*pass[i]/(pass[i]+fail[i])) with halves rounded up, 0 when
\* pass[i]+fail[i] = 0, hence an integer in 0..100; pass=[40,35],
\* fail=[10,5] gives [80, 88].
C10_RateIsRoundedRatio ==
  Done("toRate") =>
    /\ Len(res.out) = Len(arg.labels)
    /\ \A i \in 1..Len(res.out) :
         /\ res.out[i] = ExactRate(arg.pass[i], arg.fail[i])
         /\ res.out[i] \in 0..100
    /\ arg = Scenario2 => res.out = <<80, 88>>

(***************************************************************************)
(* Properties of the running page.                                         *)
(***************************************************************************)
\* C1: a run that completes after a younger run for another selection has
\* written the same output (log table, day chart, week chart) does not
\* overwrite what the younger run wrote (checked under SpecRace).
C1_NoStaleOverwrite == staleWrites \cap {"log", "day", "week"} = {}

\* the Monday of the calendar week of a date, as a day number
MondayOf(dateStr) == DayNo(dateStr) - ((Weekday(dateStr) + 6) % 7)

DeviceSum(F(_, _), dayNo, dev) ==
  LET c == CivilFromDays(dayNo)
  IN  SeqSum([n \in DOMAIN DevicesOf(dev) |-> F(<<c.y, c.m, c.d>>, DevicesOf(dev)[n])])

\* C2: when the seven /logs/day requests of a loadDay run have settled, the
\* grouped bar chart holds exactly 7 pass and 7 fail values in Monday..Sunday
\* order of the week of the run's date: 0 and 0 for a failed day, the sums
\* over the device records for the others; the run goes on to its week
\* request and no label shows an error (checked under SpecDay, where a run
\* in its "logs" step is the only one in flight).
C2_PartialFailure ==
  [][(Len(runs) = 1 /\ runs[1].kind = "day" /\ runs[1].pc = "logs") =>
       LET r      == runs[1]
           failed == {k \in DOMAIN chartDay'.pass :
                        chartDay'.pass[k] = 0 /\ chartDay'.fail[k] = 0}
       IN  /\ Len(chartDay'.pass) = 7 /\ Len(chartDay'.fail) = 7
           /\ Len(chartDay'.labels) = 7
           /\ \A k \in 1..7 :
                k \notin failed =>
                  /\ chartDay'.pass[k] = DeviceSum(DevicePass, MondayOf(r.date) + k - 1, r.dev)
                  /\ chartDay'.fail[k] = DeviceSum(DeviceFail, MondayOf(r.date) + k - 1, r.dev)
           /\ runs' = <<[r EXCEPT !.pc = "week"]>>
           /\ UNCHANGED <<labelVars, logTable, chartWeek>>
    ]_vars

\* the runs a step has started
Started == {k \in DOMAIN runs' : k > Len(runs)}

\* C3: a timer tick while the active period is Day starts a Day run only if
\* the date in #dayInput is today's date, and that run is for it; with any
\* other date the tick starts no Day run and changes neither #dayInput nor
\* the log table, the day chart or the week chart (checked under SpecTick).
C3_DayTickGuard ==
  [][(timerTick /\ period = "day") =>
       /\ \A k \in Started :
            runs'[k].kind = "day" => (dayInput = today /\ runs'[k].date = today)
       /\ dayInput = today => \E k \in Started : runs'[k].kind = "day"
       /\ dayInput # today =>
            /\ \A k \in Started : runs'[k].kind = "devices"
            /\ \A k \in DOMAIN runs : runs'[k] = runs[k]
            /\ UNCHANGED <<dayInput, logTable, chartDay, chartWeek>>
    ]_vars

\* a tick has found the Day period showing another date than today and only
\* refreshes the device list
C3_Witness ==
  /\ period = "day" /\ dayInput \notin {<<>>, today}
  /\ Len(runs) = 1 /\ runs[1].kind = "devices" /\ runs[1].by = "tick"
  /\ chartDay.labels # <<>>

\* C4: a timer tick while the active period is Week, Month or Year starts
\* that period's run with the current selector values and device, whatever
\* window they show and whatever #dayInput holds (checked under SpecTick).
C4_PeriodTick ==
  [][(timerTick /\ period \in {"week", "month", "year"}) =>
       /\ Len(runs') = Len(runs) + 1
       /\ \A k \in DOMAIN runs : runs'[k] = runs[k]
       /\ LET r == runs'[Len(runs')]
          IN  /\ r.kind = period /\ r.by = "tick" /\ r.dev = selectedDevice
              /\ period = "week" =>
                   r.y = weekYear /\ r.m = weekMonth /\ r.w = weekIndex
              /\ period = "month" => r.y = monthYear /\ r.m = monthSelect
              /\ period = "year" => r.y = yearSelect
    ]_vars

\* a tick has reloaded a past year while #dayInput holds another day than
\* today
C4_Witness ==
  /\ period = "year" /\ dayInput # today /\ yearSelect < today[1]
  /\ Len(runs) = 1 /\ runs[1].kind = "year" /\ runs[1].by = "tick"
  /\ runs[1].y = yearSelect

WeekBlocks(y, m) == (DaysInMonth(y, m) + 6) \div 7

\* C7: the selected week index is one of the blocks 1..ceil(daysInMonth/7)
\* of the year and month the week selectors hold, and every Week request is
\* issued with a week index that is a block of its year and month (checked
\* under SpecNav).
C7_WeekIndexInRange ==
  /\ (weekYear # NoSel /\ weekMonth # NoSel) =>
       weekIndex \in 1..WeekBlocks(weekYear, weekMonth)
  /\ \A k \in DOMAIN runs :
       (runs[k].kind = "week" /\ runs[k].y # NoSel /\ runs[k].m # NoSel) =>
         runs[k].w \in 1..WeekBlocks(runs[k].y, runs[k].m)

\* a handler has made dateStr the selected date and loads it
DateChosen ==
  /\ Len(runs') = Len(runs) + 1
  /\ runs'[Len(runs')].kind = "day" /\ runs'[Len(runs')].by = "user"
  /\ runs'[Len(runs')].date = dayInput'

\* C8: whenever a handler changes the selected date, the week selectors then
\* hold the date's year and month and the week index
\* floor((dayOfMonth - 1) / 7) + 1 (checked under SpecNav).
C8_SelectorsFollowDate ==
  [][DateChosen =>
       /\ weekYear' = dayInput'[1]
       /\ weekMonth' = dayInput'[2]
       /\ weekIndex' = ((dayInput'[3] - 1) \div 7) + 1
    ]_vars

\* the month a label of the year chart encodes, the week a label of the
\* month chart encodes
ClickedNumber(chart, idx, word) ==
  IF idx \in DOMAIN chart.labels THEN LabelNumber(chart.labels[idx], word) ELSE NoSel

\* C11: a click on a year-chart element whose label encodes month M sets the
\* selected month to M, rebuilds the week-index options for the length of
\* month M of the current year, and starts the Month run for that year and M
\* (checked under SpecNav).
C11_YearDrillDown ==
  [][\A idx \in 1..12 :
       (chartYear_onclick(idx) /\ ClickedNumber(chartYear, idx, "Tháng") # NoSel) =>
         LET M == ClickedNumber(chartYear, idx, "Tháng")
             r == runs'[Len(runs')]
         IN  /\ monthSelect' = M
             /\ Len(runs') = Len(runs) + 1
             /\ r.kind = "month" /\ r.y = monthYear /\ r.m = M
             /\ Len(weekOpts') = WeekBlocks(monthYear, M)
             /\ weekOpts'[Len(weekOpts')].end = DaysInMonth(monthYear, M)
             /\ weekIndex' \in 1..WeekBlocks(monthYear, M)
    ]_vars

\* C12: a click on a month-chart element whose label encodes week N starts
\* the Week run for week N of the year and month the month chart displays
\* and sets the week selectors to that year, that month and N (checked under
\* SpecNav; monthLabel names the month the chart was last rendered for).
C12_MonthDrillDown ==
  [][\A idx \in 1..5 :
       (/\ chartMonth_onclick(idx)
        /\ ClickedNumber(chartMonth, idx, "Tuần") # NoSel
        /\ monthLabel.text = "month") =>
         LET N == ClickedNumber(chartMonth, idx, "Tuần")
             r == runs'[Len(runs')]
         IN  /\ Len(runs') = Len(runs) + 1
             /\ r.kind = "week" /\ r.y = monthLabel.y /\ r.m = monthLabel.m /\ r.w = N
             /\ weekYear' = monthLabel.y /\ weekMonth' = monthLabel.m /\ weekIndex' = N
    ]_vars

\* C13: once loadDay or loadWeek has populated the week chart, a click on
\* any of its elements changes the page: it selects the date of the label
\* and starts the Day run for it (checked under SpecNav, on a settled page).
C13_WeekDrillDown ==
  (Quiet /\ chartWeek.labels # <<>>) =>
    \A idx \in DOMAIN chartWeek.labels :
      ENABLED (/\ chartWeek_onclick(idx)
               /\ Len(runs') = Len(runs) + 1
               /\ runs'[Len(runs')].kind = "day")

\* a click on an element whose label gives no finer selection
UnparsedClick(idx) ==
  \/ chartWeek_onclick(idx) /\ ~IsFullDate(chartWeek.labels[idx])
  \/ chartMonth_onclick(idx) /\ ClickedNumber(chartMonth, idx, "Tuần") = NoSel
  \/ chartYear_onclick(idx) /\ ClickedNumber(chartYear, idx, "Tháng") = NoSel

\* C14: a chart click whose element label cannot be parsed into a finer
\* selection changes nothing: no selector, no run started, no chart, no
\* label (checked under SpecNav).
C14_UnparsedClickNoOp ==
  [][\A idx \in 1..12 : UnparsedClick(idx) => UNCHANGED vars]_vars

\* the week chart shows "MM-DD" labels on a settled page and its first
\* element can be clicked
C14_Witness ==
  /\ Quiet /\ stage = "timer"
  /\ chartWeek.labels # <<>> /\ ~IsFullDate(chartWeek.labels[1])
  /\ ENABLED chartWeek_onclick(1)
  /\ chartYear.labels # <<>> /\ ClickedNumber(chartYear, 1, "Tháng") = NoSel
  /\ ENABLED chartYear_onclick(1)

\* the caller of run i goes on: start() to its next await, the timer
\* callback to fetchDevices(), an event handler to nothing
CallerGoesOn(i) ==
  /\ runs[i].by = "start" => stage' # stage
  /\ (runs[i].by = "tick" /\ runs[i].kind # "devices") =>
       /\ Len(runs') = Len(runs)
       /\ runs'[Len(runs')].kind = "devices" /\ runs'[Len(runs')].by = "tick"
  /\ runs[i].by = "user" => Len(runs') = Len(runs) - 1

\* C15: when the request of loadWeek, loadMonth or loadYear is answered
\* non-2xx, the view's label becomes the error placeholder, the labels and
\* datasets of its chart stay exactly as they were, and the caller goes on
\* (checked under SpecRace).
C15_FetchFailed ==
  [][\A i \in DOMAIN runs :
       /\ loadWeek_response(i, FALSE) =>
            weekLabel' = ErrorLabel /\ chartWeek' = chartWeek /\ CallerGoesOn(i)
       /\ loadMonth_response(i, FALSE) =>
            monthLabel' = ErrorLabel /\ chartMonth' = chartMonth /\ CallerGoesOn(i)
       /\ loadYear_response(i, FALSE) =>
            yearLabel' = ErrorLabel /\ chartYear' = chartYear /\ CallerGoesOn(i)
    ]_vars

\* a Week request has failed over a populated week chart, which still shows
\* its data, and startup has gone through to the timer
C15_Witness ==
  /\ weekLabel = ErrorLabel /\ chartWeek.labels # <<>>
  /\ Len(chartWeek.d0) = Len(chartWeek.labels)
  /\ stage = "timer"

\* a chart whose every dataset has one value per label
Aligned(chart) ==
  \A f \in DOMAIN chart \ {"labels"} : Len(chart[f]) = Len(chart.labels)

\* C16: a payload that parses but lacks the expected arrays, or whose
\* arrays do not match the labels in length, is handled like a failed
\* fetch: the view shows the error placeholder and the chart keeps the
\* labels and values it had.
C16_MalformedLikeFailure ==
  [][\A i \in DOMAIN runs : \A shape \in MalformedShapes :
       /\ loadWeek_shaped(i, shape)
             => weekLabel' = ErrorLabel /\ chartWeek' = chartWeek
       /\ loadMonth_shaped(i, shape)
             => monthLabel' = ErrorLabel /\ chartMonth' = chartMonth
       /\ loadYear_shaped(i, shape)
             => yearLabel' = ErrorLabel /\ chartYear' = chartYear]_vars

\* the loader start() awaits after the one of the given kind, "timer" after
\* the last
StageAfter(kind) ==
  CASE kind = "devices" -> "day"
    [] kind = "day"     -> "week"
    [] kind = "week"    -> "month"
    [] kind = "month"   -> "year"
    [] kind = "year"    -> "timer"

\* the step in which run i returns to its caller, with or without a failure
Ends(i) ==
  \/ loadDay_hourly(i, FALSE)
  \/ \E ok \in BOOLEAN : \/ loadDay_week(i, ok)
                         \/ loadWeek_response(i, ok)
                         \/ loadMonth_response(i, ok)
                         \/ loadYear_response(i, ok)
                         \/ fetchDevices_response(i, ok)

\* C17: every loader catches its own failures.  Whatever requests fail,
\* a loader awaited by start() returns and start() goes on to the next
\* loader in the order devices, day, week, month, year and then installs the
\* timer; a loader awaited by a timer tick returns and the tick starts its
\* device-list refresh; the timer, once installed, stays installed; and a
\* chart whose own request is answered is rendered (checked under
\* SpecStart).
C17_LoadersCatch ==
  [][/\ \A i \in DOMAIN runs :
          /\ (Ends(i) /\ runs[i].by = "start") =>
                /\ stage = runs[i].kind
                /\ stage' = StageAfter(runs[i].kind)
                /\ IF stage' = "timer" THEN runs' = <<>>
                   ELSE /\ Len(runs') = 1
                        /\ runs'[1].kind = stage' /\ runs'[1].by = "start"
          /\ (Ends(i) /\ runs[i].by = "tick" /\ runs[i].kind # "devices") =>
                /\ Len(runs') = Len(runs)
                /\ runs'[Len(runs')].kind = "devices"
                /\ runs'[Len(runs')].by = "tick"
          /\ (\E failed \in StartFails : loadDay_logs(i, failed)) =>
                Len(chartDay'.labels) = 7 /\ Len(chartDay'.pass) = 7
          /\ loadDay_week(i, TRUE) => chartWeek'.labels # <<>>
          /\ loadWeek_response(i, TRUE) =>
                chartWeek'.labels # <<>> /\ weekLabel' \notin {ErrorLabel, NoLabel}
          /\ loadMonth_response(i, TRUE) =>
                chartMonth'.labels # <<>> /\ monthLabel' \notin {ErrorLabel, NoLabel}
          /\ loadYear_response(i, TRUE) =>
                Len(chartYear'.labels) = 12 /\ yearLabel' \notin {ErrorLabel, NoLabel}
     /\ stage = "timer" => stage' = "timer"
    ]_vars

\* startup is over although its day and week loads failed, its month and
\* year charts are rendered, and a later tick's failed month load is
\* followed by that tick's device-list refresh
C17_Witness ==
  /\ stage = "timer" /\ period = "month"
  /\ chartWeek.labels = <<>> /\ weekLabel = ErrorLabel
  /\ chartYear.labels # <<>> /\ yearLabel # ErrorLabel
  /\ chartMonth.labels # <<>> /\ monthLabel = ErrorLabel
  /\ \E i \in DOMAIN runs : runs[i].kind = "devices" /\ runs[i].by = "tick"

\* run i repeats the load that last wrote its view: the view's label (for
\* the bar chart of the day view, its labels; for the log table, its date)
\* is the one of run i's selection.  The week chart is also written by
\* loadDay, so a Week run repeats the last write only when it is a tick's
\* run in the Week period and the run that entered the period has returned.
Repeats(i) ==
  LET r == runs[i]
  IN  CASE r.kind = "month" -> monthLabel = Label("month", r.y, r.m, 0)
        [] r.kind = "year"  -> yearLabel = Label("year", r.y, 0, 0)
        [] r.kind = "week"  ->
             /\ weekLabel = SrvWeek(r.y, r.m, r.w, r.dev).range
             /\ period = "week" /\ r.by = "tick"
             /\ \A k \in DOMAIN runs : runs[k].by # "user"
        [] r.kind = "day"   ->
             IF r.pc = "hourly" THEN logTable.date = r.date
             ELSE chartDay.labels =
                    [k \in 1..7 |-> DayLabel(weekDatesFrom(r.date, zone)[k])]
        [] OTHER -> FALSE

\* C18: a run that repeats, with the same selection, device and backing
\* data, the load that last wrote its view leaves the view as it is: the
\* same labels, the same datasets with the same values, the same label
\* (checked under SpecTick, where every request is answered and the device
\* filter stays All).
C18_Idempotent ==
  [][\A i \in DOMAIN runs : Repeats(i) =>
       /\ loadMonth_response(i, TRUE) =>
             chartMonth' = chartMonth /\ monthLabel' = monthLabel
       /\ loadYear_response(i, TRUE) =>
             chartYear' = chartYear /\ yearLabel' = yearLabel
       /\ loadWeek_response(i, TRUE) =>
             chartWeek' = chartWeek /\ weekLabel' = weekLabel
       /\ loadDay_hourly(i, TRUE) => logTable' = logTable
       /\ loadDay_logs(i, {}) => chartDay' = chartDay
    ]_vars

\* a tick of the Month period has reloaded the month the chart already
\* showed and gone on to the device list
C18_Witness ==
  /\ stage = "timer" /\ period = "month"
  /\ monthLabel = Label("month", monthYear, monthSelect, 0)
  /\ chartMonth.labels # <<>> /\ Aligned(chartMonth)
  /\ Len(runs) = 1 /\ runs[1].kind = "devices" /\ runs[1].by = "tick"

Asked(r) == DevicesOf(r.dev)

\* C20: a run carries the device filter in force when it started, on every
\* request it makes: runs started by a step have the filter of that step,
\* no step changes the filter of a run in flight (selecting another device
\* included), and what a response renders is the data of the run's own
\* filter - of all devices exactly when that filter is All.  Selecting a
\* device changes neither the active period nor #dayInput nor a selector
\* (checked under SpecDevice).
C20_DeviceFilter ==
  [][/\ \A k \in Started : runs'[k].dev = selectedDevice'
     /\ \A i \in DOMAIN runs :
          /\ Ends(i) =>
                /\ \A k \in DOMAIN runs' :
                     /\ k < i => runs'[k].dev = runs[k].dev
                     /\ (k >= i /\ k < Len(runs)) => runs'[k].dev = runs[k + 1].dev
                /\ Len(runs') = Len(runs) => runs'[Len(runs')].dev = selectedDevice
          /\ (loadDay_hourly(i, TRUE) \/ loadDay_logs(i, {})) =>
                \A k \in DOMAIN runs : runs'[k].dev = runs[k].dev
          /\ loadDay_hourly(i, TRUE) =>
                logTable'.pass = SrvHourly(runs[i].date, runs[i].dev).pass
          /\ loadDay_logs(i, {}) =>
                \A k \in 1..7 :
                  chartDay'.pass[k] =
                    SeqSum([n \in DOMAIN Asked(runs[i]) |->
                              DevicePass(weekDatesFrom(runs[i].date, zone)[k],
                                         Asked(runs[i])[n])])
          /\ loadDay_week(i, TRUE) =>
                chartWeek'.d0 =
                  toCumulative(SrvWeek(runs[i].date[1], runs[i].date[2],
                                       WeekIdxOf(runs[i].date), runs[i].dev)).passCum
          /\ loadWeek_response(i, TRUE) =>
                chartWeek'.d0 = SrvWeek(runs[i].y, runs[i].m, runs[i].w, runs[i].dev).pass
          /\ loadMonth_response(i, TRUE) =>
                chartMonth'.d0 = SrvMonth(runs[i].y, runs[i].m, runs[i].dev).pass
          /\ loadYear_response(i, TRUE) =>
                chartYear'.d0 = SrvYear(runs[i].y, runs[i].dev).pass
     /\ \A name \in DeviceNames : device_onclick(name) =>
          /\ selectedDevice' = name
          /\ \A k \in DOMAIN runs : runs'[k] = runs[k]
          /\ UNCHANGED <<period, selVars>>
    ]_vars

\* a loadDay started under All is about to get its week response after
\* the user has selected M1
C20_Witness ==
  /\ selectedDevice = "M1" /\ Len(runs) = 2
  /\ runs[1].kind = "day" /\ runs[1].pc = "week" /\ runs[1].dev = "all"
  /\ runs[2].dev = "M1"
  /\ ENABLED loadDay_week(1, TRUE)

\* C21: a change of #weekYear or #weekMonth leaves the selected week index
\* as it is when the new month has a block of that index, and otherwise
\* moves it to the last block of the new month (checked under SpecNav).
C21_WeekIndexKept ==
  [][((\E y \in YearOptions : weekYear_onchange(y))
        \/ (\E m \in MonthOptions : weekMonth_onchange(m))) /\ weekIndex >= 1
       => weekIndex' = Min(weekIndex, WeekBlocks(weekYear', weekMonth'))]_vars

\* C22: when a date is loaded, the week index derived from it,
\* floor((day - 1) / 7) + 1, is the one loadDay requests and the one
\* syncSelectionsFromDate selects; it is an option built by buildWeekIndex
\* for the date's year and month, and that option's start..end range holds
\* the date's day of month; for 29 February 2024 it is 5, and block 4 is
\* 22..28 (checked under SpecSync).
C22_WeekIndexAgrees ==
  [][btnLoadDay_onclick =>
       LET d == dayInput
           r == runs'[Len(runs')]
       IN  /\ r.kind = "day" /\ r.date = d
           /\ WeekIdxOf(r.date) = ((d[3] - 1) \div 7) + 1
           /\ weekYear' = d[1] /\ weekMonth' = d[2]
           /\ weekIndex' = WeekIdxOf(r.date)
           /\ weekOpts' = buildWeekIndex(d[1], d[2])
           /\ weekIndex' \in DOMAIN weekOpts'
           /\ weekOpts'[weekIndex'].value = weekIndex'
           /\ weekOpts'[weekIndex'].start <= d[3] /\ d[3] <= weekOpts'[weekIndex'].end
           /\ d = <<2024, 2, 29>> =>
                /\ weekIndex' = 5
                /\ weekOpts'[4] = [value |-> 4, start |-> 22, end |-> 28]
    ]_vars

\* the labels of the grouped bar chart for the week of a date
BarLabels(dateStr) == [k \in 1..7 |-> DayLabel(weekDatesFrom(dateStr, zone)[k])]

\* C23: a loadDay run writes the log table at its hourly response, the
\* grouped bar chart when its /logs/day requests have settled and the area
\* chart at its week response, each step leaving the other two outputs as
\* they are.  A failed hourly request ends the run with all three
\* unchanged; a failed week request ends it with the log table and the bar
\* chart holding the run's date and the area chart unchanged; either way the
\* caller goes on and no label shows an error (checked under SpecOrder,
\* where a loadDay is the only load in flight).
C23_DayWriteOrder ==
  [][\A i \in DOMAIN runs :
       /\ loadDay_hourly(i, FALSE) =>
             /\ UNCHANGED <<logTable, chartDay, chartWeek, labelVars>>
             /\ CallerGoesOn(i)
       /\ loadDay_hourly(i, TRUE) =>
             /\ logTable'.date = runs[i].date
             /\ logTable'.pass = SrvHourly(runs[i].date, runs[i].dev).pass
             /\ UNCHANGED <<chartDay, chartWeek, labelVars>>
             /\ Len(runs') = Len(runs) /\ runs'[i].pc = "logs"
       /\ (\E failed \in OrderFails : loadDay_logs(i, failed)) =>
             /\ logTable.date = runs[i].date
             /\ chartDay'.labels = BarLabels(runs[i].date)
             /\ UNCHANGED <<logTable, chartWeek, labelVars>>
             /\ Len(runs') = Len(runs) /\ runs'[i].pc = "week"
       /\ loadDay_week(i, TRUE) =>
             /\ logTable.date = runs[i].date
             /\ chartDay.labels = BarLabels(runs[i].date)
             /\ chartWeek'.labels =
                  Slice5(SrvWeek(runs[i].date[1], runs[i].date[2],
                                 WeekIdxOf(runs[i].date), runs[i].dev).labels)
             /\ UNCHANGED <<logTable, chartDay, labelVars>>
             /\ CallerGoesOn(i)
       /\ loadDay_week(i, FALSE) =>
             /\ logTable.date = runs[i].date
             /\ chartDay.labels = BarLabels(runs[i].date)
             /\ UNCHANGED <<logTable, chartDay, chartWeek, labelVars>>
             /\ CallerGoesOn(i)
    ]_vars

\* a loadDay for 10 March has ended after its week request failed: the log
\* table and the bar chart are 10 March's, the area chart still shows the
\* week that startup loaded
C23_Witness ==
  /\ Quiet /\ stage = "timer" /\ dayInput = <<2024, 3, 10>>
  /\ logTable.date = dayInput /\ chartDay.labels = BarLabels(dayInput)
  /\ chartWeek.labels # <<>>
  /\ chartWeek.labels # Slice5(SrvWeek(2024, 3, 2, selectedDevice).labels)
  /\ weekLabel # ErrorLabel

====
